---- MODULE Spec2Model ----
(***************************************************************************)
(* A model of csvadc.py: the tri-state mapper (map_value), the bus map     *)
(* (BusHandler.infer / default_lsb_first / default_msb_first), the bus     *)
(* decoder (BusHandler.extract_vals), the formatter (format_val) and the   *)
(* driver (main) with its clock resampler and its m * n == p check.        *)
(*                                                                         *)
(* Representation.                                                         *)
(*  - A text (a column name, a rendered value) is a sequence of one-       *)
(*    character strings, so that the header pattern and the formatter are  *)
(*    computed character by character.                                     *)
(*  - A CSV field is a record [text, val]: text = "empty" is the empty     *)
(*    string, "bad" a non-empty string float() rejects, "num" a numeral    *)
(*    whose float() is val.                                                *)
(*  - Voltages are in tenths of a volt and times in nanoseconds, so the    *)
(*    floats of the program are exact integers here (0.2 V = 2,            *)
(*    9e-9 s = 9).                                                         *)
(*  - Python's None is the record None, an integer v is Some(v); the       *)
(*    tri-state of map_value is one of "True", "False", "None".            *)
(*  - A dict is a sequence of its items in insertion order.                *)
(***************************************************************************)
EXTENDS Integers, Sequences, FiniteSets, TLC

VARIABLES
    pc,               \* where main is: parse_args, setup, skip, loop, body, next, done, usage_error, crashed
    args,             \* the parsed command line: low, high, order, skip, format
    has_header,       \* csv.Sniffer().has_header(sample)
    header,           \* the first line when it is a header: the column names
    peek_row,         \* the first line when it is data: its fields
    trace_step,       \* the input's time grid: 0 = any times, s > 0 = row k has time k * s
    busses,           \* the BusHandler: [busses, low, high]
    non_bus_cols,     \* [bound, map]: main's local non_bus_cols (unbound without a header)
    skip_left,        \* iterations left of the --skip loop
    next_sample_time, \* main's local of that name
    num_correct,      \* main's local of that name
    record,           \* the row the for loop has just read
    nrows,            \* data rows read from the file so far
    lines_out,        \* per-row output lines started on stdout
    last_line,        \* the output line of the current iteration of the row loop
    reported,         \* the "Num correct" line: None until printed
    error,            \* the exception that ended the run ("" when none)
    golden,           \* history: emitted rows whose decoded m, n, p are integers with m * n = p
    call,             \* the function call under check
    result            \* its result

vars == <<pc, args, has_header, header, peek_row, trace_step, busses, non_bus_cols,
          skip_left, next_sample_time, num_correct, record, nrows, lines_out,
          last_line, reported, error, golden, call, result>>

-----------------------------------------------------------------------------
(* Program constants                                                       *)

INITIAL_DELAY == 9
CLOCK_PERIOD == 10
DEFAULT_LOW_THRESHOLD == 2
DEFAULT_HIGH_THRESHOLD == 15

BITORDER_LSB_FIRST == "lsb"
BITORDER_MSB_FIRST == "msb"

-----------------------------------------------------------------------------
(* Bounds of the model                                                     *)

MaxRows == 3      \* data rows in the input file
MaxBits == 3      \* columns of a headerless file
MaxVolt == 4      \* samples and thresholds of the map_value calls: 0 .. MaxVolt

-----------------------------------------------------------------------------
(* Values                                                                  *)

None == [isNone |-> TRUE, v |-> 0]
Some(x) == [isNone |-> FALSE, v |-> x]

Pow2(n) == 2 ^ n

RECURSIVE BitOr(_, _)
\* Python's a | b on non-negative integers.
BitOr(a, b) ==
    IF a = 0 THEN b
    ELSE IF b = 0 THEN a
    ELSE (IF (a % 2 = 1) \/ (b % 2 = 1) THEN 1 ELSE 0) + 2 * BitOr(a \div 2, b \div 2)

BitAt(x, i) == (x \div Pow2(i)) % 2

Min(S) == CHOOSE x \in S : \A y \in S : x <= y
Max(S) == CHOOSE x \in S : \A y \in S : x >= y

-----------------------------------------------------------------------------
(* Texts                                                                   *)

DigitChars == <<"0", "1", "2", "3", "4", "5", "6", "7", "8", "9">>
HexChars == DigitChars \o <<"A", "B", "C", "D", "E", "F">>
Letters == {"a", "b", "c", "d", "e", "f", "g", "h", "i", "j", "k", "l", "m",
            "n", "o", "p", "q", "r", "s", "t", "u", "v", "w", "x", "y", "z"}

IsDigit(c) == \E i \in 1..10 : DigitChars[i] = c
IsWordChar(c) == c \in Letters \/ IsDigit(c) \/ c = "_"
DigitVal(c) == (CHOOSE i \in 1..10 : DigitChars[i] = c) - 1

RECURSIVE IntOf(_)
\* int(s) of a string of decimal digits.
IntOf(ds) ==
    IF Len(ds) = 0 THEN 0
    ELSE 10 * IntOf(SubSeq(ds, 1, Len(ds) - 1)) + DigitVal(ds[Len(ds)])

RECURSIVE DigitsOf(_, _)
\* The digits of x >= 0 in the given base, most significant first.
DigitsOf(x, base) ==
    IF x < base THEN <<HexChars[x + 1]>>
    ELSE DigitsOf(x \div base, base) \o <<HexChars[(x % base) + 1]>>

RECURSIVE ZeroPad(_, _)
\* Python's 0{width} fill: pad on the left to at least width characters.
ZeroPad(s, width) == IF Len(s) >= width THEN s ELSE ZeroPad(<<"0">> \o s, width)

TimeName == <<"t", "i", "m", "e">>
DefaultName == <<"(", "d", "e", "f", "a", "u", "l", "t", ")">>
NameM == <<"m">>
NameN == <<"n">>
NameP == <<"p">>

\* The column name "v(<name><digits>)".
Node(name, digits) == <<"v", "(">> \o name \o digits \o <<")">>

-----------------------------------------------------------------------------
(* map_value                                                               *)

\* A variant of map_value that takes a sample at the high threshold for
\* undecided.
map_value_lt_high(x, low, high) ==
    IF x > high THEN "True"
    ELSE IF x < low THEN "False"
    ELSE "None"

map_value(x, low, high) ==
    IF x >= high THEN "True"
    ELSE IF x < low THEN "False"
    ELSE "None"

-----------------------------------------------------------------------------
(* BusHandler                                                              *)

\* busnode_pat.match(s): 'v\((\w+?)(\d+)\)' anchored at the start of s. The
\* name group is lazy (the shortest that lets the rest match); the digit
\* group must run up to the closing parenthesis.
busnode_match(s) ==
    LET n == Len(s)
        Cands == {kj \in (1..n) \X (1..n) :
                     /\ 3 + kj[1] + kj[2] <= n
                     /\ \A i \in 3..(2 + kj[1]) : IsWordChar(s[i])
                     /\ \A i \in (3 + kj[1])..(2 + kj[1] + kj[2]) : IsDigit(s[i])
                     /\ s[3 + kj[1] + kj[2]] = ")"}
    IN  IF n >= 2 /\ s[1] = "v" /\ s[2] = "(" /\ Cands # {}
        THEN LET k == Min({kj[1] : kj \in Cands})
                 j == Max({kj[2] : kj \in {c \in Cands : c[1] = k}})
             IN  [matched |-> TRUE,
                  name |-> SubSeq(s, 3, 2 + k),
                  digits |-> SubSeq(s, 3 + k, 2 + k + j)]
        ELSE [matched |-> FALSE, name |-> <<>>, digits |-> <<>>]

\* bh.busses[bus_name][colnum] = bus_bit on a defaultdict(dict).
SetBit(bs, bus_name, colnum, bus_bit) ==
    IF \E i \in 1..Len(bs) : bs[i].name = bus_name
    THEN [i \in 1..Len(bs) |->
             IF bs[i].name = bus_name
             THEN [bs[i] EXCEPT !.bitmap = Append(@, [col |-> colnum, bit |-> bus_bit])]
             ELSE bs[i]]
    ELSE Append(bs, [name |-> bus_name, bitmap |-> <<[col |-> colnum, bit |-> bus_bit]>>])

RECURSIVE InferFrom(_, _, _)
\* The loop of BusHandler.infer from column k (1-based here, colnum = k - 1).
InferFrom(hdr, k, bs) ==
    IF k > Len(hdr) THEN bs
    ELSE LET m == busnode_match(hdr[k])
         IN  IF ~m.matched THEN InferFrom(hdr, k + 1, bs)
             ELSE InferFrom(hdr, k + 1, SetBit(bs, m.name, k - 1, IntOf(m.digits)))

NewHandler(bs) == [busses |-> bs, low |-> DEFAULT_LOW_THRESHOLD, high |-> DEFAULT_HIGH_THRESHOLD]

infer(hdr) == NewHandler(InferFrom(hdr, 1, <<>>))

default_lsb_first(length) ==
    NewHandler(<<[name |-> DefaultName,
                  bitmap |-> [i \in 1..length |-> [col |-> i - 1, bit |-> i - 1]]]>>)

\* A variant of default_msb_first that numbers the bits as the columns.
default_msb_first_same(length) ==
    NewHandler(<<[name |-> DefaultName,
                  bitmap |-> [i \in 1..length |-> [col |-> i - 1, bit |-> i - 1]]]>>)

default_msb_first(length) ==
    NewHandler(<<[name |-> DefaultName,
                  bitmap |-> [i \in 1..length |-> [col |-> i - 1, bit |-> length - 1 - (i - 1)]]]>>)

set_thresholds(bh, low, high) == [bh EXCEPT !.low = low, !.high = high]

RECURSIVE ExtractBusSkip(_, _, _, _, _)
\* A variant of the inner loop that takes an undecided sample for a 0 bit.
ExtractBusSkip(bh, bitmap, row, k, acc) ==
    IF k > Len(bitmap) THEN [err |-> "", val |-> Some(acc)]
    ELSE IF bitmap[k].col >= Len(row) THEN [err |-> "IndexError", val |-> None]
    ELSE LET digital == map_value(row[bitmap[k].col + 1], bh.low, bh.high)
         IN  ExtractBusSkip(bh, bitmap, row, k + 1,
                            BitOr(acc, (IF digital = "True" THEN 1 ELSE 0) * Pow2(bitmap[k].bit)))

RECURSIVE ExtractBus(_, _, _, _, _)
\* The inner loop of extract_vals from item k of the bitmap, acc being
\* result[busname] so far. row[colnum] raises IndexError past the row's end;
\* an undecided sample sets None and breaks out of the loop.
ExtractBus(bh, bitmap, row, k, acc) ==
    IF k > Len(bitmap) THEN [err |-> "", val |-> Some(acc)]
    ELSE IF bitmap[k].col >= Len(row) THEN [err |-> "IndexError", val |-> None]
    ELSE LET digital == map_value(row[bitmap[k].col + 1], bh.low, bh.high)
         IN  IF digital = "None" THEN [err |-> "", val |-> None]
             ELSE ExtractBus(bh, bitmap, row, k + 1,
                             BitOr(acc, (IF digital = "True" THEN 1 ELSE 0) * Pow2(bitmap[k].bit)))

RECURSIVE ExtractFrom(_, _, _, _)
\* The outer loop of extract_vals from bus i; res is the result dict so far.
ExtractFrom(bh, row, i, res) ==
    IF i > Len(bh.busses) THEN [err |-> "", vals |-> res]
    ELSE LET b == ExtractBus(bh, bh.busses[i].bitmap, row, 1, 0)
         IN  IF b.err # "" THEN [err |-> b.err, vals |-> res]
             ELSE ExtractFrom(bh, row, i + 1, Append(res, [name |-> bh.busses[i].name, val |-> b.val]))

extract_vals(bh, row) == ExtractFrom(bh, row, 1, <<>>)

-----------------------------------------------------------------------------
(* format_val                                                              *)

NoneText == <<"N", "o", "n", "e">>

\* '{}'.format(val): str(None) for None. The X and b presentation types are
\* refused by NoneType.__format__ (TypeError).
format_val(val, fmt, width) ==
    IF fmt = "dec"
    THEN [err |-> "", text |-> IF val.isNone THEN NoneText ELSE DigitsOf(val.v, 10)]
    ELSE IF val.isNone THEN [err |-> "TypeError", text |-> <<>>]
    ELSE IF fmt = "hex"
    THEN [err |-> "", text |-> <<"0", "x">> \o ZeroPad(DigitsOf(val.v, 16), ((width - 1) \div 4) + 1)]
    ELSE [err |-> "", text |-> <<"0", "b">> \o ZeroPad(DigitsOf(val.v, 2), width)]

-----------------------------------------------------------------------------
(* CSV fields and rows                                                     *)

Empty == [text |-> "empty", val |-> 0]
Bad == [text |-> "bad", val |-> 0]
Num(x) == [text |-> "num", val |-> x]

\* len(x) of a field.
NonEmpty(f) == f.text # "empty"

\* [float(x) for x in record if len(x)]: ValueError on the first field
\* float() rejects.
to_floats(fields) ==
    LET kept == SelectSeq(fields, NonEmpty)
    IN  IF \E i \in 1..Len(kept) : kept[i].text = "bad"
        THEN [err |-> "ValueError", rec |-> <<>>]
        ELSE [err |-> "", rec |-> [i \in 1..Len(kept) |-> kept[i].val]]

\* sum(bool(x) for x in csv_peek(f, dialect)) for a header line and for a
\* data line.
CountNames(hdr) == Cardinality({i \in 1..Len(hdr) : Len(hdr[i]) > 0})
CountFields(fields) == Len(SelectSeq(fields, NonEmpty))

-----------------------------------------------------------------------------
(* dicts as item sequences                                                 *)

HasKey(d, key) == \E i \in 1..Len(d) : d[i].name = key
Index(d, key) == CHOOSE i \in 1..Len(d) : d[i].name = key

\* d[key] = x: an existing key keeps its place.
Put(d, key, x) ==
    IF HasKey(d, key)
    THEN [i \in 1..Len(d) |-> IF d[i].name = key THEN [name |-> key, col |-> x] ELSE d[i]]
    ELSE Append(d, [name |-> key, col |-> x])

RECURSIVE NonBusFrom(_, _, _, _)
\* {header[i]: i for i in set(range(num_cols)) - bus_cols}, i ascending.
NonBusFrom(hdr, num_cols, bus_cols, i) ==
    IF i < 0 THEN <<>>
    ELSE LET before == NonBusFrom(hdr, num_cols, bus_cols, i - 1)
         IN  IF i >= num_cols \/ i \in bus_cols THEN before
             ELSE Put(before, hdr[i + 1], i)

\* bus_cols: the union of every bus's column indices.
BusCols(bh) ==
    UNION {{bh.busses[i].bitmap[k].col : k \in 1..Len(bh.busses[i].bitmap)} :
              i \in 1..Len(bh.busses)}

non_bus_cols_of(hdr, num_cols, bh) ==
    NonBusFrom(hdr, num_cols, BusCols(bh), Len(hdr) - 1)

-----------------------------------------------------------------------------
(* main: the body of the row loop                                          *)

\* A variant of the clock test that also drops a row at the sample time.
TooEarlyOrEqual(t, nst) == t <= nst

\* t < next_sample_time
TooEarly(t, nst) == t < nst

\* A variant of the clock step that restarts the period at the admitted row.
ResyncSampleTime(nst, t) == t + CLOCK_PERIOD

\* next_sample_time += CLOCK_PERIOD; t, the admitted row's time, is not used.
AdvanceSampleTime(nst, t) == nst + CLOCK_PERIOD

\* m * n == p on the values of bus_vals: int * None raises TypeError, and an
\* integer never equals None.
ProductCheck(m, n, p) ==
    IF m.isNone \/ n.isNone THEN [err |-> "TypeError", ok |-> FALSE]
    ELSE [err |-> "", ok |-> (~p.isNone) /\ m.v * n.v = p.v]

RECURSIVE PrintAux(_, _, _, _)
\* The loop over non_bus_cols.items(): the names whose "name=value" it
\* printed (the values themselves are not kept), and the IndexError of
\* record[col] that may end it.
PrintAux(nbc, rec, i, printed) ==
    IF i > Len(nbc) THEN [err |-> "", aux |-> printed]
    ELSE IF nbc[i].col >= Len(rec) THEN [err |-> "IndexError", aux |-> printed]
    ELSE PrintAux(nbc, rec, i + 1, Append(printed, nbc[i].name))

BusWidth(bh, bus_name) ==
    LET bm == bh.busses[CHOOSE i \in 1..Len(bh.busses) : bh.busses[i].name = bus_name].bitmap
    IN  Max({bm[k].bit : k \in 1..Len(bm)}) + 1

RECURSIVE PrintBusses(_, _, _, _, _)
\* The loop over bus_vals.items(): what it printed, and the TypeError of
\* format_val that may end it.
PrintBusses(bh, bv, fmt, i, printed) ==
    IF i > Len(bv) THEN [err |-> "", bus |-> printed]
    ELSE LET f == format_val(bv[i].val, fmt, BusWidth(bh, bv[i].name))
         IN  IF f.err # "" THEN [err |-> f.err, bus |-> printed]
             ELSE PrintBusses(bh, bv, fmt, i + 1, Append(printed, [name |-> bv[i].name, text |-> f.text]))

ValOf(bv, key) == bv[Index(bv, key)].val

NoLine == [aux |-> <<>>, bus |-> <<>>, vals |-> <<>>, mark |-> None, ended |-> FALSE]

\* One iteration of "for record in r": what it leaves behind. kind is
\*   "error"  the exception err ended the run (line, when started, is the
\*            part of the output line printed before it),
\*   "blank"  the row was skipped as empty,
\*   "early"  the row was dropped by the clock,
\*   "row"    the row was emitted.
loop_body(fields, nbc, bh, fmt, nst, nc) ==
    LET same == [kind |-> "", err |-> "", nst |-> nst, nc |-> nc, started |-> FALSE, line |-> NoLine]
        fl == to_floats(fields)
        rec == fl.rec
    IN
    IF fl.err # "" THEN [same EXCEPT !.kind = "error", !.err = fl.err]
    ELSE IF Len(rec) = 0 THEN [same EXCEPT !.kind = "blank"]
    ELSE IF ~nbc.bound THEN [same EXCEPT !.kind = "error", !.err = "NameError"]
    ELSE IF ~HasKey(nbc.map, TimeName) THEN [same EXCEPT !.kind = "error", !.err = "KeyError"]
    ELSE IF nbc.map[Index(nbc.map, TimeName)].col >= Len(rec)
         THEN [same EXCEPT !.kind = "error", !.err = "IndexError"]
    ELSE
    LET t == rec[nbc.map[Index(nbc.map, TimeName)].col + 1] IN
    IF TooEarly(t, nst) THEN [same EXCEPT !.kind = "early"]
    ELSE
    LET nst2 == AdvanceSampleTime(nst, t)
        adm == [same EXCEPT !.nst = nst2, !.started = TRUE]
        pa == PrintAux(nbc.map, rec, 1, <<>>)
        l1 == [NoLine EXCEPT !.aux = pa.aux]
    IN
    IF pa.err # "" THEN [adm EXCEPT !.kind = "error", !.err = pa.err, !.line = l1]
    ELSE
    LET ev == extract_vals(bh, rec) IN
    IF ev.err # "" THEN [adm EXCEPT !.kind = "error", !.err = ev.err, !.line = l1]
    ELSE
    LET bv == ev.vals
        pb == PrintBusses(bh, bv, fmt, 1, <<>>)
        l2 == [l1 EXCEPT !.vals = bv, !.bus = pb.bus]
    IN
    IF pb.err # "" THEN [adm EXCEPT !.kind = "error", !.err = pb.err, !.line = l2]
    ELSE IF ~(HasKey(bv, NameM) /\ HasKey(bv, NameN) /\ HasKey(bv, NameP))
         THEN [adm EXCEPT !.kind = "error", !.err = "KeyError", !.line = l2]
    ELSE
    LET chk == ProductCheck(ValOf(bv, NameM), ValOf(bv, NameN), ValOf(bv, NameP)) IN
    IF chk.err # "" THEN [adm EXCEPT !.kind = "error", !.err = chk.err, !.line = l2]
    ELSE IF chk.ok
         THEN [adm EXCEPT !.kind = "row", !.nc = nc + 1,
                          !.line = [l2 EXCEPT !.mark = Some(nc + 1), !.ended = TRUE]]
    ELSE [adm EXCEPT !.kind = "row", !.line = [l2 EXCEPT !.ended = TRUE]]

-----------------------------------------------------------------------------
(* main: before the row loop                                               *)

\* The bus map main builds: inferred from the header, else the positional
\* default in the order --order names (lsb when it is not given).
make_busses(with_header, hdr, first_row, order) ==
    IF with_header THEN infer(hdr)
    ELSE IF order \in {"", BITORDER_LSB_FIRST} THEN default_lsb_first(CountFields(first_row))
    ELSE default_msb_first(CountFields(first_row))

-----------------------------------------------------------------------------
(* Inputs                                                                  *)

Levels == {1, 9, 18}           \* 0.1 V, 0.9 V, 1.8 V
Times == {0, 9, 19, 40}        \* ns
Steps == {3, 10, 20}           \* ns between the rows of a regular trace
MaxDenseRows == 4              \* data rows of a regular trace

HdrMNP == <<TimeName, Node(NameM, <<"0">>), Node(NameN, <<"0">>), Node(NameP, <<"0">>)>>
HdrNoTime == <<Node(NameM, <<"0">>), Node(NameN, <<"0">>), Node(NameP, <<"0">>)>>
HdrDup == <<TimeName, Node(<<"a">>, <<"1">>), Node(<<"a">>, <<"0", "1">>)>>
HdrMix == <<TimeName, Node(<<"d">>, <<"1">>), Node(<<"e">>, <<"0">>),
            Node(<<"d">>, <<"0">>), Node(<<"e">>, <<"2">>)>>

HdrMNPQ == Append(HdrMNP, Node(<<"q">>, <<"0">>))

Headers == {HdrMNP, HdrMNPQ, HdrNoTime, HdrDup}

TimeFields == {Num(x) : x \in Times} \cup {Empty, Bad}
LevelFields == {Num(x) : x \in Levels} \cup {Empty}

RECURSIVE RowsFrom(_, _, _)
\* The rows of n fields whose field i is drawn from F[i], from field i on.
RowsFrom(F, n, i) ==
    IF i > n THEN {<<>>}
    ELSE {<<f>> \o r : f \in F[i], r \in RowsFrom(F, n, i + 1)}

\* The rows the file may hold next: the time column holds times (the next
\* grid point in a regular trace), every other column a voltage.
NextRows ==
    IF has_header
    THEN RowsFrom([i \in 1..Len(header) |->
                      IF header[i] = TimeName
                      THEN IF trace_step = 0 THEN TimeFields ELSE {Num(nrows * trace_step)}
                      ELSE LevelFields],
                  Len(header), 1)
    ELSE IF nrows = 0 THEN {peek_row}
    ELSE RowsFrom([i \in 1..Len(peek_row) |-> LevelFields], Len(peek_row), 1)

RowLimit == IF trace_step = 0 THEN MaxRows ELSE MaxDenseRows

\* No more rows: a file whose first line is data holds that line.
AtEnd == has_header \/ nrows > 0

ArgSets == [low : {DEFAULT_LOW_THRESHOLD, DEFAULT_HIGH_THRESHOLD},
            high : {DEFAULT_HIGH_THRESHOLD},
            order : {"", BITORDER_LSB_FIRST, BITORDER_MSB_FIRST},
            skip : {0, 1},
            format : {"dec", "hex", "bin"}]

FirstRows == UNION {[1..n -> {Num(x) : x \in {1, 18}} \cup {Empty}] : n \in 1..MaxBits}

NoCall == [fn |-> "", x |-> 0, low |-> 0, high |-> 0, src |-> "", hdr |-> <<>>, n |-> 0, row |-> <<>>]
NoResult == [done |-> FALSE, tri |-> "", bh |-> NewHandler(<<>>), ev |-> [err |-> "", vals |-> <<>>]]

-----------------------------------------------------------------------------
(* main as a state machine                                                 *)

Init ==
    /\ pc = "parse_args"
    /\ args \in ArgSets
    /\ has_header \in BOOLEAN
    /\ has_header => args.order = ""     \* with a header --order only prints a warning
    /\ IF has_header
       THEN /\ header \in Headers
            /\ peek_row = <<>>
            /\ trace_step \in IF TimeName \in {header[i] : i \in 1..Len(header)}
                              THEN {0} \cup Steps ELSE {0}
       ELSE /\ header = <<>>
            /\ peek_row \in FirstRows
            /\ trace_step = 0
    /\ busses = NewHandler(<<>>)
    /\ non_bus_cols = [bound |-> FALSE, map |-> <<>>]
    /\ skip_left = 0
    /\ next_sample_time = 0
    /\ num_correct = 0
    /\ record = <<>>
    /\ nrows = 0
    /\ lines_out = 0
    /\ last_line = NoLine
    /\ reported = None
    /\ error = ""
    /\ golden = 0
    /\ call = NoCall
    /\ result = NoResult

\* parse_args: ap.error exits when --low >= --high.
ParseArgs ==
    /\ pc = "parse_args"
    /\ pc' = IF args.low >= args.high THEN "usage_error" ELSE "setup"
    /\ UNCHANGED <<args, has_header, header, peek_row, trace_step, busses, non_bus_cols,
                   skip_left, next_sample_time, num_correct, record, nrows, lines_out,
                   last_line, reported, error, golden, call, result>>

\* main from the sniffing to the two assignments before the row loop; the
\* --skip loop is SkipRow.
Setup ==
    /\ pc = "setup"
    /\ busses' = set_thresholds(make_busses(has_header, header, peek_row, args.order),
                                args.low, args.high)
    /\ non_bus_cols' =
          IF has_header
          THEN [bound |-> TRUE,
                map |-> non_bus_cols_of(header, CountNames(header), infer(header))]
          ELSE non_bus_cols
    /\ skip_left' = args.skip
    /\ next_sample_time' = INITIAL_DELAY
    /\ num_correct' = 0
    /\ pc' = IF args.skip > 0 THEN "skip" ELSE "loop"
    /\ UNCHANGED <<args, has_header, header, peek_row, trace_step, record, nrows,
                   lines_out, last_line, reported, error, golden, call, result>>

\* for _ in range(args.skip): next(r), with a row left in the file.
SkipRow ==
    /\ pc = "skip"
    /\ nrows < RowLimit
    /\ nrows' = nrows + 1
    /\ skip_left' = skip_left - 1
    /\ pc' = IF skip_left = 1 THEN "loop" ELSE "skip"
    /\ UNCHANGED <<args, has_header, header, peek_row, trace_step, busses, non_bus_cols,
                   next_sample_time, num_correct, record, lines_out, last_line,
                   reported, error, golden, call, result>>

\* next(r) at the end of the file: StopIteration.
SkipPastEnd ==
    /\ pc = "skip"
    /\ AtEnd
    /\ pc' = "crashed"
    /\ error' = "StopIteration"
    /\ UNCHANGED <<args, has_header, header, peek_row, trace_step, busses, non_bus_cols,
                   skip_left, next_sample_time, num_correct, record, nrows, lines_out,
                   last_line, reported, golden, call, result>>

\* "for record in r" yields the next row.
ReadRow ==
    /\ pc = "loop"
    /\ nrows < RowLimit
    /\ \E row \in NextRows : record' = row
    /\ nrows' = nrows + 1
    /\ pc' = "body"
    /\ UNCHANGED <<args, has_header, header, peek_row, trace_step, busses, non_bus_cols,
                   skip_left, next_sample_time, num_correct, lines_out, last_line,
                   reported, error, golden, call, result>>

\* The emitted row's decoded m, n and p are integers with m * n = p.
GoldenLine(line) ==
    /\ HasKey(line.vals, NameM) /\ HasKey(line.vals, NameN) /\ HasKey(line.vals, NameP)
    /\ ~ValOf(line.vals, NameM).isNone
    /\ ~ValOf(line.vals, NameN).isNone
    /\ ~ValOf(line.vals, NameP).isNone
    /\ ValOf(line.vals, NameM).v * ValOf(line.vals, NameN).v = ValOf(line.vals, NameP).v

\* The body of the row loop on the row just read.
Body ==
    /\ pc = "body"
    /\ LET o == loop_body(record, non_bus_cols, busses, args.format,
                          next_sample_time, num_correct)
       IN  /\ pc' = IF o.kind = "error" THEN "crashed" ELSE "next"
           /\ error' = o.err
           /\ next_sample_time' = o.nst
           /\ num_correct' = o.nc
           /\ lines_out' = IF o.started THEN lines_out + 1 ELSE lines_out
           /\ last_line' = o.line
           /\ golden' = IF o.kind = "row" /\ GoldenLine(o.line) THEN golden + 1 ELSE golden
    /\ UNCHANGED <<args, has_header, header, peek_row, trace_step, busses, non_bus_cols,
                   skip_left, record, nrows, reported, call, result>>

\* The loop goes on to its next iteration. The row and the output line of
\* the iteration that ended are never read again (record is assigned anew,
\* stdout is only written), so the model drops them here.
NextIteration ==
    /\ pc = "next"
    /\ pc' = "loop"
    /\ record' = <<>>
    /\ last_line' = NoLine
    /\ UNCHANGED <<args, has_header, header, peek_row, trace_step, busses, non_bus_cols,
                   skip_left, next_sample_time, num_correct, nrows, lines_out,
                   reported, error, golden, call, result>>

\* The row loop ends with the file: print("Num correct: ...").
EndOfStream ==
    /\ pc = "loop"
    /\ AtEnd
    /\ pc' = "done"
    /\ reported' = Some(num_correct)
    /\ UNCHANGED <<args, has_header, header, peek_row, trace_step, busses, non_bus_cols,
                   skip_left, next_sample_time, num_correct, record, nrows, lines_out,
                   last_line, error, golden, call, result>>

Next ==
    \/ ParseArgs
    \/ Setup
    \/ SkipRow
    \/ SkipPastEnd
    \/ ReadRow
    \/ Body
    \/ NextIteration
    \/ EndOfStream

Spec == Init /\ [][Next]_vars

-----------------------------------------------------------------------------
(* map_value and extract_vals called on their own                          *)

ProbeVolts == {1, 2, 9, 15}
ProbeThresholds == {<<DEFAULT_LOW_THRESHOLD, DEFAULT_HIGH_THRESHOLD>>, <<10, DEFAULT_HIGH_THRESHOLD>>}
ProbeHeaders == {HdrMNP, HdrDup, HdrMix}

MapCalls ==
    {[NoCall EXCEPT !.fn = "map_value", !.x = x, !.low = lo, !.high = hi] :
        x \in 0..MaxVolt, lo \in 0..MaxVolt, hi \in 0..MaxVolt}

ExtractCalls ==
    {[NoCall EXCEPT !.fn = "extract_vals", !.src = "infer", !.hdr = h, !.n = Len(h),
                    !.low = th[1], !.high = th[2], !.row = r] :
        h \in ProbeHeaders, th \in ProbeThresholds, r \in UNION {[1..Len(g) -> ProbeVolts] : g \in ProbeHeaders}}
    \cup
    {[NoCall EXCEPT !.fn = "extract_vals", !.src = o, !.n = Len(r),
                    !.low = th[1], !.high = th[2], !.row = r] :
        o \in {BITORDER_LSB_FIRST, BITORDER_MSB_FIRST}, th \in ProbeThresholds,
        r \in UNION {[1..n -> ProbeVolts] : n \in 1..MaxBits}}

PureInit ==
    /\ pc = "call"
    /\ args = [low |-> DEFAULT_LOW_THRESHOLD, high |-> DEFAULT_HIGH_THRESHOLD,
               order |-> "", skip |-> 0, format |-> "dec"]
    /\ has_header = FALSE
    /\ header = <<>>
    /\ peek_row = <<>>
    /\ trace_step = 0
    /\ busses = NewHandler(<<>>)
    /\ non_bus_cols = [bound |-> FALSE, map |-> <<>>]
    /\ skip_left = 0
    /\ next_sample_time = 0
    /\ num_correct = 0
    /\ record = <<>>
    /\ nrows = 0
    /\ lines_out = 0
    /\ last_line = NoLine
    /\ reported = None
    /\ error = ""
    /\ golden = 0
    /\ call \in {c \in MapCalls \cup ExtractCalls : c.fn = "map_value" \/ Len(c.row) = c.n}
    /\ result = NoResult

CallMapValue ==
    /\ pc = "call"
    /\ call.fn = "map_value"
    /\ result' = [NoResult EXCEPT !.done = TRUE, !.tri = map_value(call.x, call.low, call.high)]
    /\ pc' = "returned"
    /\ UNCHANGED <<args, has_header, header, peek_row, trace_step, busses, non_bus_cols,
                   skip_left, next_sample_time, num_correct, record, nrows, lines_out,
                   last_line, reported, error, golden, call>>

CallExtractVals ==
    /\ pc = "call"
    /\ call.fn = "extract_vals"
    /\ LET bh == set_thresholds(make_busses(call.src = "infer", call.hdr,
                                            [i \in 1..call.n |-> Num(call.row[i])], call.src),
                                call.low, call.high)
       IN  result' = [NoResult EXCEPT !.done = TRUE, !.bh = bh, !.ev = extract_vals(bh, call.row)]
    /\ pc' = "returned"
    /\ UNCHANGED <<args, has_header, header, peek_row, trace_step, busses, non_bus_cols,
                   skip_left, next_sample_time, num_correct, record, nrows, lines_out,
                   last_line, reported, error, golden, call>>

PureNext == CallMapValue \/ CallExtractVals

SpecPure == PureInit /\ [][PureNext]_vars

-----------------------------------------------------------------------------
(* Properties                                                              *)

TimeAvailable == has_header /\ \E i \in 1..Len(header) : header[i] = TimeName
TimeCol == CHOOSE i \in 1..Len(header) : header[i] = TimeName

\* The column count main expects: num_cols.
NumCols == IF has_header THEN CountNames(header) ELSE CountFields(peek_row)

AllEmpty(row) == \A i \in 1..Len(row) : row[i].text = "empty"
AllNumbers(row) == \A i \in 1..Len(row) : row[i].text = "num"
NoBadField(row) == \A i \in 1..Len(row) : row[i].text # "bad"

\* The row's time field is a number and no empty field comes before it.
TimeInPlace(row) ==
    /\ TimeAvailable
    /\ NoBadField(row)
    /\ \A i \in 1..TimeCol : row[i].text = "num"

Undecided(x, low, high) == low <= x /\ x < high

HasBus(name) == \E i \in 1..Len(busses.busses) : busses.busses[i].name = name

\* C1: with low < high, map_value returns True exactly when x >= high, False
\* exactly when x < low and None exactly when low <= x < high, and it
\* returns one of the three.
C1_MapValueCases ==
    (pc = "returned" /\ call.fn = "map_value" /\ call.low < call.high) =>
        /\ result.tri \in {"True", "False", "None"}
        /\ (result.tri = "True") <=> (call.x >= call.high)
        /\ (result.tri = "False") <=> (call.x < call.low)
        /\ (result.tri = "None") <=> (call.low <= call.x /\ call.x < call.high)

C1_Witness ==
    /\ pc = "returned" /\ call.fn = "map_value"
    /\ call.low < call.high /\ call.x = call.low
    /\ result.tri = "None"

\* C2: extract_vals returns None for a bus exactly when one of that bus's
\* columns is undecided, whatever the other columns hold and wherever the
\* undecided one comes in the bitmap; otherwise bit b of the value is set
\* exactly when a column mapped to bit b is high. Each bus's value depends on
\* its own columns only.
C2_UnknownPropagation ==
    (pc = "returned" /\ call.fn = "extract_vals") =>
        LET bs == result.bh.busses
            vals == result.ev.vals
        IN  /\ result.ev.err = ""
            /\ Len(vals) = Len(bs)
            /\ \A i \in 1..Len(bs) :
                  LET bm == bs[i].bitmap
                      unknown == \E k \in 1..Len(bm) :
                                    Undecided(call.row[bm[k].col + 1], call.low, call.high)
                      top == Max({bm[k].bit : k \in 1..Len(bm)})
                  IN  /\ vals[i].name = bs[i].name
                      /\ vals[i].val.isNone <=> unknown
                      /\ ~unknown =>
                            /\ vals[i].val.v < Pow2(top + 1)
                            /\ \A b \in 0..top :
                                  (BitAt(vals[i].val.v, b) = 1) <=>
                                      \E k \in 1..Len(bm) :
                                          bm[k].bit = b /\ call.row[bm[k].col + 1] >= call.high

\* Two busses, the first undecided in its last column only, the second
\* decoded to a non-zero value.
C2_Witness ==
    /\ pc = "returned" /\ call.fn = "extract_vals" /\ call.hdr = HdrMix
    /\ Len(result.ev.vals) = 2
    /\ result.ev.vals[1].val.isNone
    /\ ~Undecided(call.row[2], call.low, call.high)
    /\ Undecided(call.row[4], call.low, call.high)
    /\ ~result.ev.vals[2].val.isNone
    /\ result.ev.vals[2].val.v > 0

\* C7: for the positional default map over N resolved columns, the decoded
\* value has N bits; bit i is column i's level in lsb order and bit N-1-i is
\* column i's level in msb order.
C7_DefaultBitOrder ==
    (/\ pc = "returned" /\ call.fn = "extract_vals"
     /\ call.src \in {BITORDER_LSB_FIRST, BITORDER_MSB_FIRST}
     /\ \A i \in 1..call.n : ~Undecided(call.row[i], call.low, call.high)) =>
        /\ result.ev.err = ""
        /\ Len(result.ev.vals) = 1
        /\ result.ev.vals[1].name = DefaultName
        /\ ~result.ev.vals[1].val.isNone
        /\ result.ev.vals[1].val.v < Pow2(call.n)
        /\ \A i \in 0..(call.n - 1) :
              BitAt(result.ev.vals[1].val.v,
                    IF call.src = BITORDER_LSB_FIRST THEN i ELSE call.n - 1 - i)
                 = IF call.row[i + 1] >= call.high THEN 1 ELSE 0

\* msb order, first column high and the others low: the top bit alone.
C7_Witness ==
    /\ pc = "returned" /\ call.fn = "extract_vals" /\ call.src = BITORDER_MSB_FIRST
    /\ call.n >= 3
    /\ call.row[1] >= call.high
    /\ \A i \in 2..call.n : call.row[i] < call.low
    /\ result.ev.vals[1].val = Some(Pow2(call.n - 1))

\* The time main reads from a row whose time field is in place.
RowTime == record[TimeCol].val

\* C3: next_sample_time starts at the initial delay; a row is dropped exactly
\* when its time is below next_sample_time; next_sample_time grows by exactly
\* one period on each admitted row, is left alone by each dropped or empty
\* row and by every other step, and never decreases.
C3_ClockAdvance ==
    [][/\ (pc = "setup") => (next_sample_time' = INITIAL_DELAY)
       /\ (pc \notin {"parse_args", "setup"}) =>
             next_sample_time' \in {next_sample_time, next_sample_time + CLOCK_PERIOD}
       /\ (pc \notin {"parse_args", "setup", "body"}) => (next_sample_time' = next_sample_time)
       /\ (pc = "body" /\ AllEmpty(record)) =>
             (next_sample_time' = next_sample_time /\ lines_out' = lines_out /\ pc' = "next")
       /\ (pc = "body" /\ TimeInPlace(record) /\ RowTime < next_sample_time) =>
             (next_sample_time' = next_sample_time /\ lines_out' = lines_out /\ pc' = "next")
       /\ (pc = "body" /\ TimeInPlace(record) /\ RowTime >= next_sample_time) =>
             (next_sample_time' = next_sample_time + CLOCK_PERIOD /\ lines_out' = lines_out + 1)
      ]_vars

\* A row at the initial delay, dropped because an earlier row was admitted.
C3_Witness ==
    /\ pc = "next" /\ TimeInPlace(record)
    /\ RowTime = INITIAL_DELAY
    /\ next_sample_time = INITIAL_DELAY + CLOCK_PERIOD
    /\ lines_out = 1 /\ nrows = 2
    /\ last_line = NoLine

Decoded(row) == extract_vals(busses, [i \in 1..Len(row) |-> row[i].val]).vals

\* The row under the loop body is complete, passes the clock, and the map
\* has the busses m, n and p.
AdmittedRow ==
    /\ pc = "body" /\ TimeAvailable
    /\ Len(record) = Len(header) /\ AllNumbers(record)
    /\ RowTime >= next_sample_time
    /\ HasBus(NameM) /\ HasBus(NameN) /\ HasBus(NameP)

\* C5: on an admitted row whose m, n and p decode to integers num_correct
\* grows by one when m * n = p and stays otherwise; no other row changes it;
\* the count printed at the end is the number of emitted rows with m * n = p.
C5_CounterTracksProduct ==
    /\ [][/\ (/\ AdmittedRow
              /\ ~ValOf(Decoded(record), NameM).isNone
              /\ ~ValOf(Decoded(record), NameN).isNone
              /\ ~ValOf(Decoded(record), NameP).isNone) =>
                 num_correct' = num_correct +
                    (IF ValOf(Decoded(record), NameM).v * ValOf(Decoded(record), NameN).v
                          = ValOf(Decoded(record), NameP).v THEN 1 ELSE 0)
          /\ (pc = "body" /\ lines_out' = lines_out) => (num_correct' = num_correct)
         ]_vars
    /\ [](pc = "done" => reported = Some(golden))

\* C6: an admitted row with an undecided bus is emitted in full, with the
\* undecided bus rendered as no integer is, without a check mark, with
\* num_correct unchanged, and the loop goes on.
C6_UnknownIsNoError ==
    [][(/\ AdmittedRow
        /\ \E i \in 1..Len(Decoded(record)) : Decoded(record)[i].val.isNone) =>
           /\ pc' = "next"
           /\ last_line'.ended
           /\ last_line'.mark = None
           /\ num_correct' = num_correct
           /\ Len(last_line'.bus) = Len(busses.busses)
           /\ \A i \in 1..Len(last_line'.bus) :
                 last_line'.vals[i].val.isNone =>
                    \A x \in 0..(Pow2(BusWidth(busses, last_line'.bus[i].name)) - 1) :
                       last_line'.bus[i].text #
                          format_val(Some(x), args.format,
                                     BusWidth(busses, last_line'.bus[i].name)).text
      ]_vars

\* C8: without a "time" column no data row is ever read and the run never
\* ends normally.
C8_FatalAtStartup ==
    (~TimeAvailable) => (nrows = 0 /\ pc # "done")

\* C9: once the bus map is built, no two columns of a bus share a bit.
C9_UniqueBits ==
    (pc \notin {"parse_args", "setup", "usage_error"}) =>
        \A i \in 1..Len(busses.busses) :
            \A k1, k2 \in 1..Len(busses.busses[i].bitmap) :
                (k1 # k2) => (busses.busses[i].bitmap[k1].bit # busses.busses[i].bitmap[k2].bit)

\* C10: a row with fewer populated fields than the expected column count is
\* skipped: no output, next_sample_time and num_correct unchanged, and the
\* loop goes on.
C10_ShortRowSkipped ==
    [][(pc = "body" /\ NoBadField(record) /\ CountFields(record) < NumCols) =>
          /\ pc' = "next"
          /\ next_sample_time' = next_sample_time
          /\ num_correct' = num_correct
          /\ lines_out' = lines_out
          /\ last_line' = NoLine
      ]_vars

====
